---- MODULE Spec2Model ----
(***************************************************************************)
(* A model of zenreach/relationalize: the Relationalize class              *)
(* (relationalize.py) and the Schema class (schema.py, types.py).          *)
(*                                                                         *)
(* Python strings that the code builds, splits, compares or searches       *)
(* (paths, table identifiers, column names, type tokens) are sequences of  *)
(* one-character strings, so that concatenation, `in` (substring), split   *)
(* and sorted() are computed as the code computes them.                    *)
(*                                                                         *)
(* Python dicts are insertion-ordered: a dict is a sequence of             *)
(* [k |-> key, v |-> value] records with pairwise distinct keys.           *)
(***************************************************************************)
EXTENDS Integers, Sequences, FiniteSets, TLC

VARIABLES
    \* ---- one Relationalize instance (relationalize.py) ----
    stringify_arrays,   \* self.stringify_arrays
    stringify_objects,  \* self.stringify_objects
    outputs,            \* self.outputs: the identifiers create_output was called for, in order
    log,                \* every row handed to a writer / on_object_write, in write order
    rids,               \* number of RIDs _generate_rid has issued
    items,              \* the documents relationalize has processed so far, in order
    events,             \* the calls made to create_output, the writers and on_object_write, in order
    pc,                 \* where the `with Relationalize(...)` block stands: "new", "in", "raising", "left"
    \* ---- Schema instances (schema.py) ----
    schemas,            \* schemas[i]: self.schema of instance i, field name -> ColumnDict
    readLog,            \* readLog[i]: the set of rows instance i has read
    merged,             \* the latest Schema.merge call: its arguments and result
    converted,          \* the latest convert_object call: its arguments and outcome
    columns,            \* the latest generate_output_columns call: its schema and result
    serialized,         \* the latest serialize call: its schema, its result, and that deserialized
    ddl                 \* the latest generate_ddl call: its schema, its arguments and outcome

relVars == <<stringify_arrays, stringify_objects, outputs, log, rids, items,
            events, pc>>

schemaVars == <<schemas, readLog, merged, converted, columns, serialized,
               ddl>>

vars == <<relVars, schemaVars>>

-----------------------------------------------------------------------------
(* Bounds of the model.                                                    *)

MaxArrLen == 2   \* elements of a generated array
MaxItems == 2    \* documents relationalized in one behaviour
MaxReads == 3    \* distinct rows the instances read in one behaviour

-----------------------------------------------------------------------------
(* Generic helpers on sequences and ordered dicts.                         *)

Range(s) == {s[i] : i \in 1..Len(s)}

RECURSIVE Concat(_)
Concat(ss) == IF ss = <<>> THEN <<>> ELSE Head(ss) \o Concat(Tail(ss))

RECURSIVE SumSeq(_)
SumSeq(s) == IF s = <<>> THEN 0 ELSE Head(s) + SumSeq(Tail(s))

\* position of key k in dict d, 0 when absent
DictIdx(d, k) ==
    IF \E i \in 1..Len(d) : d[i].k = k
    THEN CHOOSE i \in 1..Len(d) : d[i].k = k
    ELSE 0

DictHas(d, k) == DictIdx(d, k) # 0

DictGet(d, k) == d[DictIdx(d, k)].v

\* the field names of a dict
KeysOf(d) == { d[n].k : n \in 1..Len(d) }

\* d[k] = v
DictSet(d, k, v) ==
    IF DictHas(d, k)
    THEN [d EXCEPT ![DictIdx(d, k)] = [k |-> k, v |-> v]]
    ELSE Append(d, [k |-> k, v |-> v])

\* d.update(e)
RECURSIVE DictUpdate(_, _)
DictUpdate(d, e) ==
    IF e = <<>> THEN d
    ELSE DictUpdate(DictSet(d, Head(e).k, Head(e).v), Tail(e))

-----------------------------------------------------------------------------
(* JSON values.  Containers carry their children in c; a scalar is opaque  *)
(* to the relationalizer and flows through as it is.                       *)

Obj(fields) == [t |-> "obj", c |-> fields]     \* dict
Arr(elems)  == [t |-> "arr", c |-> elems]      \* list
\* A Python int has no width: the model keeps it as hi * 10^9 + lo with
\* 0 <= lo < 10^9.
Limb == 10^9
BigInt(hi, lo) == [t |-> "int", c |-> [hi |-> hi, lo |-> lo]]
IntVal(n) == BigInt(n \div Limb, n % Limb)
\* x < y for two such ints
IntLess(x, y) == x.hi < y.hi \/ (x.hi = y.hi /\ x.lo < y.lo)
NoneVal     == [t |-> "none", c |-> 0]         \* None
StrOf(d)    == [t |-> "text", c |-> d]         \* str(d), the textual rendering of d

-----------------------------------------------------------------------------
(* relationalize.py                                                        *)

_DELIMITER == <<"_">>
_ID == _DELIMITER \o <<"r", "i", "d">> \o _DELIMITER
_VAL == _DELIMITER \o <<"v", "a", "l">> \o _DELIMITER
_INDEX == _DELIMITER \o <<"i", "n", "d", "e", "x">> \o _DELIMITER

\* self.name
name == <<"T">>

\* _generate_rid: "R_" followed by the hex of a fresh uuid4; n numbers the uuids
_generate_rid(n) == [t |-> "rid", c |-> n]

\* The mutable part of the instance, threaded through the recursion.
SelfState == [outputs |-> outputs, log |-> log, rids |-> rids, events |-> events]

\* One call out of the instance: create_output(table) returning `writer`,
\* writer.write(json.dumps(row)), writer.write("\n"), on_object_write(table,
\* row) or writer.close(); raised tells whether the call raised.
Event(e, table, writer, row) ==
    [e |-> e, table |-> table, writer |-> writer, row |-> row, raised |-> FALSE]

\* the n-th call of create_output returns writer n
NewWriter(evs) == Cardinality({n \in 1..Len(evs) : evs[n].e = "create"}) + 1

\* self.outputs[key]: the writer the latest assignment to the key stored
WriterOf(evs, key) ==
    LET cs == {n \in 1..Len(evs) : evs[n].e = "create" /\ evs[n].table = key}
    IN evs[CHOOSE n \in cs : \A m \in cs : m <= n].writer

\* _write_row: the writer of `key` gets json.dumps(row) and a newline, then
\* on_object_write(key, row) is called
_write_row(st, key, row) ==
    [st EXCEPT !.log = Append(@, [table |-> key, row |-> row]),
               !.events = @ \o << Event("write", key, WriterOf(@, key), row),
                                  Event("newline", key, WriterOf(@, key), <<>>),
                                  Event("callback", key, 0, row) >>]

\* a mutant of _write_to_output: the call that creates the writer returns
\* without writing the row
_write_to_output_create_only(st, key, content, is_sub) ==
    LET identifier == IF is_sub THEN name \o _DELIMITER \o key ELSE key
    IN IF identifier \in Range(st.outputs)
       THEN _write_row(st, identifier, content)
       ELSE [st EXCEPT !.outputs = Append(@, identifier),
                       !.events = Append(@, Event("create", identifier,
                                                  NewWriter(@), <<>>))]

\* a mutant of _write_to_output: the writer is created at every call, without
\* the test `identifier not in self.outputs`
_write_to_output_always_create(st, key, content, is_sub) ==
    LET identifier == IF is_sub THEN name \o _DELIMITER \o key ELSE key
        st1 == [st EXCEPT !.outputs = IF identifier \in Range(@) THEN @
                                      ELSE Append(@, identifier),
                          !.events = Append(@, Event("create", identifier,
                                                     NewWriter(@), <<>>))]
    IN _write_row(st1, identifier, content)

\* _write_to_output; content is always one dict here, because _relationalize
\* returns a dict on every path
_write_to_output(st, key, content, is_sub) ==
    LET identifier == IF is_sub THEN name \o _DELIMITER \o key ELSE key
        st1 == IF identifier \in Range(st.outputs)
               THEN st
               ELSE [st EXCEPT !.outputs = Append(@, identifier),
                               !.events = Append(@, Event("create", identifier,
                                                          NewWriter(@), <<>>))]
    IN _write_row(st1, identifier, content)

RECURSIVE _relationalize(_, _, _, _, _)
RECURSIVE list_loop(_, _, _, _, _, _)
RECURSIVE dict_loop(_, _, _, _, _, _, _)

\* a mutant of _list_helper: _index_ is one-based
_list_helper_one_based(st, id, index, row, path) ==
    IF row.t = "obj"
    THEN _relationalize(st,
             Obj(DictSet(DictSet(row.c, _ID, id), _INDEX, IntVal(index + 1))),
             path, TRUE, path)
    ELSE _relationalize(st,
             Obj(<< [k |-> _VAL, v |-> row], [k |-> _ID, v |-> id],
                    [k |-> _INDEX, v |-> IntVal(index + 1)] >>),
             path, TRUE, path)

\* _list_helper: the row of one array element
_list_helper(st, id, index, row, path) ==
    IF row.t = "obj"
    THEN _relationalize(st,
             Obj(DictSet(DictSet(row.c, _ID, id), _INDEX, IntVal(index))),
             path, TRUE, path)
    ELSE _relationalize(st,
             Obj(<< [k |-> _VAL, v |-> row], [k |-> _ID, v |-> id],
                    [k |-> _INDEX, v |-> IntVal(index)] >>),
             path, TRUE, path)

\* the body of `for index, row in enumerate(d)` for the elements from
\* position i (one-based here, index = i - 1) on.  (A value bound through a
\* singleton set is evaluated once; a LET definition is evaluated at each use.)
list_loop(st, d, i, id, path, key_path) ==
    IF i > Len(d) THEN st
    ELSE CHOOSE out \in
           { list_loop(_write_to_output(r.st, key_path, r.ret, TRUE),
                       d, i + 1, id, path, key_path) :
               r \in {_list_helper(st, id, i - 1, d[i], path)} } : TRUE

\* the body of `for key in d` for the fields from position i on
dict_loop(st, d, i, temp_d, path_prefix, from_array, table_path) ==
    IF i > Len(d) THEN [st |-> st, ret |-> temp_d]
    ELSE LET key == d[i].k
             temp_table_path == IF from_array
                                THEN table_path \o _DELIMITER \o key
                                ELSE <<>>
         IN CHOOSE out \in
              { dict_loop(r.st, d, i + 1, DictUpdate(temp_d, r.ret),
                          path_prefix, from_array, table_path) :
                  r \in {_relationalize(st, d[i].v, path_prefix \o key,
                                        FALSE, temp_table_path)} } : TRUE

_relationalize(st, d, path, from_array, table_path) ==
    LET path_prefix == IF path = <<>> \/ from_array
                       THEN <<>>
                       ELSE path \o _DELIMITER
    IN  IF d.t = "arr" THEN
            IF Len(d.c) = 0
            THEN [st |-> st, ret |-> << [k |-> path, v |-> NoneVal] >>]
            ELSE IF stringify_arrays
            THEN [st |-> st, ret |-> << [k |-> path, v |-> StrOf(d)] >>]
            ELSE LET id == _generate_rid(st.rids + 1)
                     key_path == IF table_path # <<>> THEN table_path ELSE path
                 IN [st |-> list_loop([st EXCEPT !.rids = @ + 1], d.c, 1, id,
                                      path, key_path),
                     ret |-> << [k |-> path, v |-> id] >>]
        ELSE IF d.t = "obj" THEN
            IF path # <<>> /\ stringify_objects
            THEN [st |-> st, ret |-> << [k |-> path, v |-> StrOf(d)] >>]
            ELSE dict_loop(st, d.c, 1, <<>>, path_prefix, from_array,
                           table_path)
        ELSE [st |-> st, ret |-> << [k |-> path, v |-> d] >>]

\* a mutant of relationalize_item: the root row is written before the rows
\* of the document's arrays
relationalize_item_root_first(st, item) ==
    CHOOSE out \in
      { [ _write_to_output([r.st EXCEPT !.log = st.log], name, r.ret, FALSE)
            EXCEPT !.log = @ \o SubSeq(r.st.log, Len(st.log) + 1, Len(r.st.log)) ] :
          r \in {_relationalize(st, item, <<>>, FALSE, <<>>)} } : TRUE

\* one iteration of `for item in object_list` of relationalize
relationalize_item(st, item) ==
    CHOOSE out \in
      { _write_to_output(r.st, name, r.ret, FALSE) :
          r \in {_relationalize(st, item, <<>>, FALSE, <<>>)} } : TRUE

\* relationalize(object_list): `for item in object_list: ...`
RECURSIVE relationalize(_, _)
relationalize(st, object_list) ==
    IF object_list = <<>> THEN st
    ELSE CHOOSE out \in
           { relationalize(st1, Tail(object_list)) :
               st1 \in {relationalize_item(st, Head(object_list))} } : TRUE

-----------------------------------------------------------------------------
(* Python str operations on sequences of characters.                       *)

StartsWith(s, p) == Len(s) >= Len(p) /\ SubSeq(s, 1, Len(p)) = p

\* sub in s
Contains(s, sub) ==
    \E i \in 1..(Len(s) - Len(sub) + 1) : SubSeq(s, i, i + Len(sub) - 1) = sub

\* s.find(sub) as a one-based position, for a sub that occurs in s
FirstAt(s, sub) ==
    CHOOSE i \in 1..(Len(s) - Len(sub) + 1) :
        /\ SubSeq(s, i, i + Len(sub) - 1) = sub
        /\ \A j \in 1..(i - 1) : SubSeq(s, j, j + Len(sub) - 1) # sub

\* s.split(sep)
RECURSIVE Split(_, _)
Split(s, sep) ==
    IF ~Contains(s, sep) THEN << s >>
    ELSE << SubSeq(s, 1, FirstAt(s, sep) - 1) >>
         \o Split(SubSeq(s, FirstAt(s, sep) + Len(sep), Len(s)), sep)

\* sep.join(parts)
RECURSIVE Join(_, _)
Join(sep, parts) ==
    IF parts = <<>> THEN <<>>
    ELSE IF Len(parts) = 1 THEN parts[1]
    ELSE parts[1] \o sep \o Join(sep, Tail(parts))

\* the character U+0060, the grave accent
Backtick == "U+0060"

\* the characters of the model's type tokens, field names and SQL text, by
\* code point
CodePoints ==
    << "\n", " ", "\"", "(", ")", ",", "-", ".", ":", ";", "A", "B", "C",
       "D", "E", "F", "G", "H", "I", "J", "K", "L", "M", "N", "O", "P",
       "Q", "R", "S", "T", "U", "V", "W", "X", "Y", "Z", "_", Backtick, "a",
       "b", "c", "d", "e", "f", "g", "h", "i", "j", "k", "l", "m", "n",
       "o", "p", "q", "r", "s", "t", "u", "v", "w", "x", "y", "z" >>

Ord(ch) == CHOOSE i \in 1..Len(CodePoints) : CodePoints[i] = ch

\* a < b for str
RECURSIVE StrLess(_, _)
StrLess(a, b) ==
    IF b = <<>> THEN FALSE
    ELSE IF a = <<>> THEN TRUE
    ELSE IF Head(a) = Head(b) THEN StrLess(Tail(a), Tail(b))
    ELSE Ord(Head(a)) < Ord(Head(b))

\* the list xs with x inserted before the first element greater than x
RECURSIVE Insert(_, _)
Insert(x, xs) ==
    IF xs = <<>> THEN << x >>
    ELSE IF StrLess(x, Head(xs)) THEN << x >> \o xs
    ELSE << Head(xs) >> \o Insert(x, Tail(xs))

\* sorted(xs) for a list of str (a stable insertion from the right)
RECURSIVE Sorted(_)
Sorted(xs) ==
    IF xs = <<>> THEN <<>>
    ELSE Insert(Head(xs), Sorted(Tail(xs)))

\* sorted(S) for a set of str
RECURSIVE SortedSet(_)
SortedSet(S) ==
    IF S = {} THEN <<>>
    ELSE LET least == CHOOSE x \in S : \A y \in S \ {x} : StrLess(x, y)
         IN << least >> \o SortedSet(S \ {least})

\* xs.remove(x) for a list that holds x: the first occurrence goes
ListRemove(xs, x) ==
    LET i == CHOOSE i \in 1..Len(xs) :
                 xs[i] = x /\ \A j \in 1..(i - 1) : xs[j] # x
    IN SubSeq(xs, 1, i - 1) \o SubSeq(xs, i + 1, Len(xs))

-----------------------------------------------------------------------------
(* types.py                                                                *)

T_none == << "n", "o", "n", "e" >>
T_bool == << "b", "o", "o", "l" >>
T_int == << "i", "n", "t" >>
T_bigint == << "b", "i", "g", "i", "n", "t" >>
T_float == << "f", "l", "o", "a", "t" >>
T_str == << "s", "t", "r" >>
T_datetime == << "d", "a", "t", "e", "t", "i", "m", "e" >>
T_datetime_tz == T_datetime \o << "_", "t", "z" >>

BaseSupportedColumnType ==
    { T_none, T_bool, T_int, T_bigint, T_float, T_str, T_datetime,
      T_datetime_tz }

is_unsupported_column_type(column) ==
    StartsWith(column, << "u", "n", "s", "u", "p", "p", "o", "r", "t", "e",
                          "d", ":" >>)

is_choice_column_type(column) == StartsWith(column, << "c", "-" >>)

\* -2147483648 and 2147483647
INT_MIN == [hi |-> -3, lo |-> 852516352]
INT_MAX == [hi |-> 2, lo |-> 147483647]

parse_type_int(value) ==
    IF IntLess(value, INT_MIN) \/ IntLess(INT_MAX, value)
    THEN T_bigint
    ELSE T_int

(* For the strings of the model, what the two library calls of             *)
(* parse_type_string answer: re.match(DATETIME_REGEX, value), and whether  *)
(* datetime.strptime accepts the value (a trailing "Z" removed) under one  *)
(* of DATETIME_VALID_FORMATS.                                              *)
MatchesDatetimeRegex(value) ==
    value \in { "2017-07-09 00:00:00", "2017-11-12 22:38:59.011Z",
                "2017-07-09T00:00:00.5" }

ParsesAsDatetime(value) ==
    value \in { "2017-07-09 00:00:00", "2017-11-12 22:38:59.011Z" }

parse_type_string(value) ==
    IF MatchesDatetimeRegex(value) /\ ParsesAsDatetime(value)
    THEN T_datetime_tz
    ELSE T_str

-----------------------------------------------------------------------------
(* schema.py                                                               *)

_CHOICE_SEQUENCE == << "c", "-" >>
_CHOICE_DELIMITER == << "-" >>
_UNSUPPORTED_SEQUENCE ==
    << "u", "n", "s", "u", "p", "p", "o", "r", "t", "e", "d", ":" >>

\* more scalar values: a bool, a float (c tenths: 25 is 2.5), a str
BoolVal(b)  == [t |-> "bool", c |-> b]
FloatVal(n) == [t |-> "float", c |-> n]
StrVal(str) == [t |-> "str", c |-> str]

\* str(type(value)) for a list and a dict, the values _parse_type rejects
TypeName(value) ==
    IF value.t = "arr"
    THEN << "<", "c", "l", "a", "s", "s", " ", "'", "l", "i", "s", "t", "'",
            ">" >>
    ELSE << "<", "c", "l", "a", "s", "s", " ", "'", "d", "i", "c", "t", "'",
            ">" >>

\* Schema._parse_type
_parse_type(value) ==
    IF value.t = "str" THEN parse_type_string(value.c)
    ELSE IF value.t = "bool" THEN T_bool
    ELSE IF value.t = "int" THEN parse_type_int(value.c)
    ELSE IF value.t = "float" THEN
        IF value.c % 10 = 0 THEN parse_type_int(IntVal(value.c \div 10).c)
        ELSE T_float
    ELSE IF value.t = "none" THEN T_none
    ELSE _UNSUPPORTED_SEQUENCE \o TypeName(value)

\* MongoDialect.is_primary_key (nosql_dialects.py), the default source dialect
is_primary_key(key) == key = << "_", "i", "d" >>

\* the "type" of the ColumnDict of a field
TypeOf(schema, key) == DictGet(schema, key).type

\* schema[key]["type"] = type: the ColumnDict object is updated in place
SetType(schema, key, type) ==
    DictSet(schema, key, [DictGet(schema, key) EXCEPT !.type = type])

\* a mutant of _read_write_object_key: a type added to a choice is appended
\* and the members are not sorted again
_read_write_object_key_appending(schema, key, value) ==
    LET value_type == _parse_type(value)
        type == TypeOf(schema, key)
    IN  IF is_unsupported_column_type(value_type) THEN schema
        ELSE IF ~DictHas(schema, key) THEN
            DictSet(schema, key, [type |-> value_type,
                                  is_primary |-> is_primary_key(key)])
        ELSE IF type = value_type THEN schema
        ELSE IF type = T_none THEN SetType(schema, key, value_type)
        ELSE IF value_type = T_none THEN schema
        ELSE IF SubSeq(type, 1, 2) = _CHOICE_SEQUENCE THEN
            IF Contains(type, value_type) THEN schema
            ELSE SetType(schema, key, type \o _CHOICE_DELIMITER \o value_type)
        ELSE IF type = T_int /\ value_type = T_float THEN
            SetType(schema, key, value_type)
        ELSE IF type = T_float /\ value_type = T_int THEN schema
        ELSE SetType(schema, key,
                 _CHOICE_SEQUENCE
                 \o Join(_CHOICE_DELIMITER, Sorted(<< type, value_type >>)))

(* Schema._read_write_object_key on self.schema, a dict from field name to *)
(* ColumnDict; the result is self.schema after the call.                   *)
_read_write_object_key(schema, key, value) ==
    LET value_type == _parse_type(value)
        type == TypeOf(schema, key)
    IN  IF is_unsupported_column_type(value_type) THEN schema
        ELSE IF ~DictHas(schema, key) THEN
            DictSet(schema, key, [type |-> value_type,
                                  is_primary |-> is_primary_key(key)])
        ELSE IF type = value_type THEN schema
        ELSE IF type = T_none THEN SetType(schema, key, value_type)
        ELSE IF value_type = T_none THEN schema
        ELSE IF SubSeq(type, 1, 2) = _CHOICE_SEQUENCE THEN
            IF Contains(type, value_type) THEN schema
            ELSE LET added == type \o _CHOICE_DELIMITER \o value_type
                     split == Tail(Split(added, _CHOICE_DELIMITER))
                     choices == IF \E i \in 1..Len(split) : split[i] = T_none
                                THEN ListRemove(split, T_none)
                                ELSE split
                 IN IF Len(choices) = 1
                    THEN SetType(schema, key, choices[1])
                    ELSE SetType(schema, key,
                             _CHOICE_SEQUENCE
                             \o Join(_CHOICE_DELIMITER, Sorted(choices)))
        ELSE IF type = T_int /\ value_type = T_float THEN
            SetType(schema, key, value_type)
        ELSE IF type = T_float /\ value_type = T_int THEN schema
        ELSE SetType(schema, key,
                 _CHOICE_SEQUENCE
                 \o Join(_CHOICE_DELIMITER, Sorted(<< type, value_type >>)))

\* Schema.read_object: `for key, value in record.items()`
RECURSIVE read_object(_, _)
read_object(schema, record) ==
    IF record = <<>> THEN schema
    ELSE CHOOSE out \in
           { read_object(s1, Tail(record)) :
               s1 \in {_read_write_object_key(schema, Head(record).k,
                                              Head(record).v)} } : TRUE

\* the types `choices` gains from one operand of Schema.merge
ChoicesOf(type) ==
    IF Contains(type, _CHOICE_SEQUENCE)
    THEN { t \in Range(Split(SubSeq(type, 3, Len(type)), _CHOICE_DELIMITER)) :
             t # T_none }
    ELSE { type }

(* Schema.merge stores the ColumnDict objects of its arguments in          *)
(* merged_schema, it does not copy them.  A ColumnDict object is known by  *)
(* the schema dict that holds it: the state of a merge is the pair         *)
(* [S |-> the schema dicts by owner, m |-> merged_schema], merged_schema   *)
(* mapping a field name to the owner whose ColumnDict of that field it     *)
(* holds.                                                                  *)

\* merged_schema[key], the ColumnDict
MergedCol(hm, key) == DictGet(hm.S[DictGet(hm.m, key)], key)

\* merged_schema[key]["type"] = type: the owner's ColumnDict changes
SetMergedType(hm, key, type) ==
    [hm EXCEPT !.S[DictGet(hm.m, key)] = SetType(@, key, type)]

\* merge_key without the sort of line 380: the choices are joined in the
\* order in which the arguments brought them
merge_key_unsorted(hm, key, owner) ==
    IF ~DictHas(hm.m, key) THEN [hm EXCEPT !.m = DictSet(hm.m, key, owner)]
    ELSE IF DictGet(hm.S[owner], key) = MergedCol(hm, key) THEN hm
    ELSE LET old == MergedCol(hm, key).type
             new == TypeOf(hm.S[owner], key)
             strip(t) == IF Contains(t, _CHOICE_SEQUENCE)
                         THEN Split(SubSeq(t, 3, Len(t)), _CHOICE_DELIMITER)
                         ELSE << t >>
             choices == SelectSeq(strip(old), LAMBDA t : t # T_none)
                        \o SelectSeq(strip(new),
                                     LAMBDA t : /\ t # T_none
                                                /\ t \notin Range(strip(old)))
         IN IF Len(choices) = 0
            THEN SetMergedType(hm, key, T_none)
            ELSE IF Len(choices) = 1
            THEN SetMergedType(hm, key, choices[1])
            ELSE SetMergedType(hm, key,
                     _CHOICE_SEQUENCE \o Join(_CHOICE_DELIMITER, choices))

\* the body of the inner loop of Schema.merge for the field key of the
\* argument owner
merge_key(hm, key, owner) ==
    IF ~DictHas(hm.m, key) THEN [hm EXCEPT !.m = DictSet(hm.m, key, owner)]
    ELSE IF DictGet(hm.S[owner], key) = MergedCol(hm, key) THEN hm
    ELSE LET choices == (ChoicesOf(MergedCol(hm, key).type)
                         \cup ChoicesOf(TypeOf(hm.S[owner], key))) \ {T_none}
         IN IF Cardinality(choices) = 0
            THEN SetMergedType(hm, key, T_none)
            ELSE IF Cardinality(choices) = 1
            THEN SetMergedType(hm, key, CHOOSE t \in choices : TRUE)
            ELSE SetMergedType(hm, key,
                     _CHOICE_SEQUENCE
                     \o Join(_CHOICE_DELIMITER, SortedSet(choices)))

\* `for key, col in schema.items()`, keys being what is left of the keys of
\* the argument owner
RECURSIVE merge_items(_, _, _)
merge_items(hm, keys, owner) ==
    IF keys = <<>> THEN hm
    ELSE CHOOSE out \in
           { merge_items(hm1, Tail(keys), owner) :
               hm1 \in {merge_key(hm, Head(keys).k, owner)} } : TRUE

\* `for schema in args`
RECURSIVE merge_args(_, _)
merge_args(hm, args) ==
    IF args = <<>> THEN hm
    ELSE CHOOSE out \in
           { merge_args(hm1, Tail(args)) :
               hm1 \in {merge_items(hm, hm.S[Head(args)], Head(args))} } : TRUE

\* Schema.merge of the schema dicts S[args[1]], ..., S[args[n]]
merge(S, args) == merge_args([S |-> S, m |-> <<>>], args)

\* the schema dict of the Schema that Schema.merge returns, by value
MergedSchema(hm) ==
    [n \in 1..Len(hm.m) |-> [k |-> hm.m[n].k, v |-> MergedCol(hm, hm.m[n].k)]]

(* The choice branch shared by the two convert loops, on the pair          *)
(* [raised, out]: the value goes under key_<type>, or the call raises.     *)
convert_choice(res, key, value_type, object_value) ==
    LET object_value_type == _parse_type(object_value)
    IN IF ~Contains(value_type, object_value_type)
       THEN [res EXCEPT !.raised = TRUE]
       ELSE [res EXCEPT !.out = DictSet(res.out,
                 key \o << "_" >> \o object_value_type, object_value)]

\* Schema._convert_object_schema_iteration: `for key, col in self.schema.items()`,
\* cols being what is left of the items
RECURSIVE _convert_object_schema_iteration(_, _, _)
_convert_object_schema_iteration(cols, record, res) ==
    IF cols = <<>> \/ res.raised THEN res
    ELSE LET key == Head(cols).k
             value_type == Head(cols).v.type
             object_value == DictGet(record, key)
             step ==
                 IF ~DictHas(record, key) THEN res
                 ELSE IF object_value = NoneVal
                 THEN [res EXCEPT !.out = DictSet(res.out, key, object_value)]
                 ELSE IF is_choice_column_type(value_type)
                 THEN convert_choice(res, key, value_type, object_value)
                 ELSE [res EXCEPT !.out = DictSet(res.out, key, object_value)]
         IN CHOOSE out \in
              { _convert_object_schema_iteration(Tail(cols), record, r) :
                  r \in {step} } : TRUE

\* Schema._convert_object_object_iteration: `for key, object_value in
\* record.items()`, items being what is left of them
RECURSIVE _convert_object_object_iteration(_, _, _)
_convert_object_object_iteration(schema, items_left, res) ==
    IF items_left = <<>> \/ res.raised THEN res
    ELSE LET key == Head(items_left).k
             object_value == Head(items_left).v
             value_type == TypeOf(schema, key)
             step ==
                 IF object_value = NoneVal
                 THEN [res EXCEPT !.out = DictSet(res.out, key, object_value)]
                 ELSE IF ~DictHas(schema, key) THEN res
                 ELSE IF is_choice_column_type(value_type)
                 THEN convert_choice(res, key, value_type, object_value)
                 ELSE [res EXCEPT !.out = DictSet(res.out, key, object_value)]
         IN CHOOSE out \in
              { _convert_object_object_iteration(schema, Tail(items_left), r) :
                  r \in {step} } : TRUE

\* the strategy Schema.convert_object picks
Strategy(schema, record) ==
    IF Len(schema) > Len(record) THEN "object" ELSE "schema"

\* Schema.convert_object: [raised, out], out being the returned dict
convert_object(schema, record) ==
    IF Len(schema) > Len(record)
    THEN _convert_object_object_iteration(schema, record,
                                          [raised |-> FALSE, out |-> <<>>])
    ELSE _convert_object_schema_iteration(schema, record,
                                          [raised |-> FALSE, out |-> <<>>])

\* the columns one field adds in generate_output_columns: `choices` is what
\* is left of value_type[2:].split(_CHOICE_DELIMITER)
RECURSIVE choice_columns(_, _)
choice_columns(key, choices) ==
    IF choices = <<>> THEN <<>>
    ELSE IF Head(choices) = T_none THEN choice_columns(key, Tail(choices))
    ELSE << key \o << "_" >> \o Head(choices) >>
         \o choice_columns(key, Tail(choices))

\* `for key, col in self.schema.items()` of generate_output_columns
RECURSIVE unsorted_columns(_)
unsorted_columns(schema) ==
    IF schema = <<>> THEN <<>>
    ELSE LET key == Head(schema).k
             value_type == Head(schema).v.type
         IN (IF ~Contains(value_type, _CHOICE_SEQUENCE)
             THEN << key >>
             ELSE choice_columns(key,
                      Split(SubSeq(value_type, 3, Len(value_type)),
                            _CHOICE_DELIMITER)))
            \o unsorted_columns(Tail(schema))

\* Schema.generate_output_columns
generate_output_columns(schema) == Sorted(unsorted_columns(schema))

(* json.dumps and json.loads on a schema dict, a dict from str to          *)
(* ColumnDict: the text is a sequence of characters.                       *)

Quote == "\""

Backslash == "\\"

\* the characters of the model outside ASCII, with the four hex digits of
\* their \uXXXX escape (ensure_ascii is on by default)
NonAscii == [ch \in {"U+00E9"} |-> << "0", "0", "e", "9" >>]

\* the body of a JSON string literal for the str (py_encodebasestring_ascii)
RECURSIVE EscapeChars(_)
EscapeChars(str) ==
    IF str = <<>> THEN <<>>
    ELSE (IF Head(str) = Quote THEN << Backslash, Quote >>
          ELSE IF Head(str) = Backslash THEN << Backslash, Backslash >>
          ELSE IF Head(str) \in DOMAIN NonAscii
          THEN << Backslash, "u" >> \o NonAscii[Head(str)]
          ELSE << Head(str) >>)
         \o EscapeChars(Tail(str))

dumps_str(str) == << Quote >> \o EscapeChars(str) \o << Quote >>

dumps_bool(b) ==
    IF b THEN << "t", "r", "u", "e" >> ELSE << "f", "a", "l", "s", "e" >>

K_type == << "t", "y", "p", "e" >>

K_is_primary == << "i", "s", "_", "p", "r", "i", "m", "a", "r", "y" >>

\* a ColumnDict, its keys in the order the code creates them
dumps_column(col) ==
    << "{" >> \o dumps_str(K_type) \o << ":", " " >> \o dumps_str(col.type)
      \o << ",", " " >> \o dumps_str(K_is_primary) \o << ":", " " >>
      \o dumps_bool(col.is_primary) \o << "}" >>

\* json.dumps(self.schema), default separators
json_dumps(schema) ==
    << "{" >>
      \o Join(<< ",", " " >>,
              [n \in 1..Len(schema) |->
                  dumps_str(schema[n].k) \o << ":", " " >>
                    \o dumps_column(schema[n].v)])
      \o << "}" >>

RECURSIVE skip_ws(_, _)
skip_ws(t, p) == IF p <= Len(t) /\ t[p] = " " THEN skip_ws(t, p + 1) ELSE p

CharOfHex(h) == CHOOSE ch \in DOMAIN NonAscii : NonAscii[ch] = h

\* a mutant of scan_string: an escape sequence is kept as it stands in the
\* text instead of being decoded
RECURSIVE scan_string_keep_escapes(_, _, _)
scan_string_keep_escapes(t, p, acc) ==
    IF t[p] = Quote THEN [val |-> acc, next |-> p + 1]
    ELSE IF t[p] = Backslash
    THEN scan_string_keep_escapes(t, p + 2, acc \o << t[p], t[p + 1] >>)
    ELSE scan_string_keep_escapes(t, p + 1, Append(acc, t[p]))

\* the JSON string literal whose body starts at p: its value and the
\* position after its closing quote
RECURSIVE scan_string(_, _, _)
scan_string(t, p, acc) ==
    IF t[p] = Quote THEN [val |-> acc, next |-> p + 1]
    ELSE IF t[p] = Backslash
    THEN IF t[p + 1] = "u"
         THEN scan_string(t, p + 6,
                          Append(acc, CharOfHex(SubSeq(t, p + 2, p + 5))))
         ELSE scan_string(t, p + 2, Append(acc, t[p + 1]))
    ELSE scan_string(t, p + 1, Append(acc, t[p]))

RECURSIVE parse_value(_, _)
RECURSIVE parse_members(_, _, _)

\* the members of a JSON object from position p on, into the dict acc
parse_members(t, p, acc) ==
    IF t[p] = "}" THEN [val |-> acc, next |-> p + 1]
    ELSE CHOOSE out \in
      { CHOOSE out2 \in
          { IF t[skip_ws(t, v.next)] = ","
            THEN parse_members(t, skip_ws(t, skip_ws(t, v.next) + 1),
                               DictSet(acc, k.val, v.val))
            ELSE parse_members(t, skip_ws(t, v.next),
                               DictSet(acc, k.val, v.val)) :
              v \in {parse_value(t, skip_ws(t, skip_ws(t, k.next) + 1))} } : TRUE :
          k \in {scan_string(t, p + 1, <<>>)} } : TRUE

\* the JSON value at position p: an object, a string, true or false
parse_value(t, p) ==
    IF t[p] = "{" THEN parse_members(t, skip_ws(t, p + 1), <<>>)
    ELSE IF t[p] = Quote THEN scan_string(t, p + 1, <<>>)
    ELSE IF t[p] = "t" THEN [val |-> TRUE, next |-> p + 4]
    ELSE [val |-> FALSE, next |-> p + 5]

json_loads(content) == parse_value(content, skip_ws(content, 1)).val

\* Schema.serialize
serialize(schema) == json_dumps(schema)

\* Schema.deserialize: the schema dict of the new instance; each value is a
\* dict with the keys "type" and "is_primary"
deserialize(content) ==
    LET d == json_loads(content)
    IN [n \in 1..Len(d) |->
          [k |-> d[n].k,
           v |-> [type |-> DictGet(d[n].v, K_type),
                  is_primary |-> DictGet(d[n].v, K_is_primary)]]]

(* The drop_* operations: self.schema after the call (the number of        *)
(* columns dropped, which they return, is not kept).                       *)

drop_null_columns(schema) ==
    LET Keep(e) == e.v.type # T_none
    IN SelectSeq(schema, Keep)

\* the characters of the model for which str.isalnum() holds
Alnum ==
    { "a", "b", "c", "d", "e", "f", "g", "h", "i", "j", "k", "l", "m", "n",
      "o", "p", "q", "r", "s", "t", "u", "v", "w", "x", "y", "z", "A",
      "U+00E9" }

ALLOWED_COLUMN_CHARS == { " ", "-", "_" }

drop_special_char_columns(schema, allowed_chars) ==
    LET Keep(e) == \A n \in 1..Len(e.k) :
                       e.k[n] \in Alnum \/ e.k[n] \in allowed_chars
    IN SelectSeq(schema, Keep)

\* str.casefold() on the characters of the model
casefold(str) == [n \in 1..Len(str) |-> IF str[n] = "A" THEN "a" ELSE str[n]]

\* a key is dropped when the casefold of an earlier key equals its own
drop_duplicate_columns(schema) ==
    LET ns == SelectSeq([n \in 1..Len(schema) |-> n],
                        LAMBDA n : \A m \in 1..(n - 1) :
                            casefold(schema[m].k) # casefold(schema[n].k))
    IN [n \in 1..Len(ns) |-> schema[ns[n]]]

(* sql_dialects.py: the text of a CREATE TABLE statement, a sequence of     *)
(* characters.                                                             *)

_COLUMN_SEPARATOR ==
    << "\n", " ", " ", " ", " ", ",", " " >>

\* the subclasses of SQLDialect
Dialects == { "postgres", "flink" }

\* type_column_mapping[column_type] of the dialect, for the types a schema
\* can hold
type_column_mapping(dialect, column_type) ==
    LET SqlBoolean == << "B", "O", "O", "L", "E", "A", "N" >>
        SqlTimestamp == << "T", "I", "M", "E", "S", "T", "A", "M", "P" >>
    IN CASE column_type = T_none -> SqlBoolean
         [] column_type = T_bool -> SqlBoolean
         [] column_type = T_int -> << "I", "N", "T" >>
         [] column_type = T_bigint -> << "B", "I", "G", "I", "N", "T" >>
         [] column_type = T_float -> << "F", "L", "O", "A", "T" >>
         [] column_type = T_str ->
               IF dialect = "postgres" THEN << "T", "E", "X", "T" >>
               ELSE << "S", "T", "R", "I", "N", "G" >>
         [] column_type = T_datetime -> SqlTimestamp
         [] column_type = T_datetime_tz ->
               IF dialect = "postgres" THEN SqlTimestamp \o << "T", "Z" >>
               ELSE SqlTimestamp \o << "_", "L", "T", "Z" >>

\* column_name.replace('"', '""')
RECURSIVE double_quotes(_)
double_quotes(str) ==
    IF str = <<>> THEN <<>>
    ELSE (IF Head(str) = Quote THEN << Quote, Quote >> ELSE << Head(str) >>)
         \o double_quotes(Tail(str))

\* the character the dialect puts around an identifier
IdentifierQuote(dialect) == IF dialect = "postgres" THEN Quote ELSE Backtick

PRIMARY_KEY ==
    << " ", "P", "R", "I", "M", "A", "R", "Y", " ", "K", "E", "Y" >>

NOT_ENFORCED ==
    << " ", "N", "O", "T", " ", "E", "N", "F", "O", "R", "C", "E", "D" >>

\* PostgresDialect.generate_ddl_column / FlinkDialect.generate_ddl_column
generate_ddl_column(dialect, column_name, column_type, is_primary) ==
    << IdentifierQuote(dialect) >> \o double_quotes(column_name)
      \o << IdentifierQuote(dialect), " " >> \o column_type
      \o (IF is_primary
          THEN PRIMARY_KEY \o (IF dialect = "flink" THEN NOT_ENFORCED ELSE <<>>)
          ELSE <<>>)

CREATE_TABLE ==
    << "C", "R", "E", "A", "T", "E", " ", "T", "A", "B", "L", "E", " ",
       "I", "F", " ", "N", "O", "T", " ", "E", "X", "I", "S", "T", "S",
       " " >>

OPEN_COLUMNS ==
    << " ", "(", "\n", " ", " ", " ", " " >>

CLOSE_COLUMNS ==
    << "\n", ")", ";" >>

\* base_ddl_sq.format(schema=..., table_name=..., columns=...)
base_ddl_sq(dialect, schema, table_name, columns_str) ==
    CREATE_TABLE
      \o (IF dialect = "postgres"
          THEN << Quote >> \o schema \o << Quote, ".", Quote >> \o table_name
                 \o << Quote >>
          ELSE << Backtick >> \o schema \o << "." >> \o table_name \o << Backtick >>)
      \o OPEN_COLUMNS \o columns_str \o CLOSE_COLUMNS

\* base_ddl.format(table_name=..., columns=...)
base_ddl(dialect, table_name, columns_str) ==
    CREATE_TABLE
      \o << IdentifierQuote(dialect) >> \o table_name
      \o << IdentifierQuote(dialect) >>
      \o OPEN_COLUMNS \o columns_str \o CLOSE_COLUMNS

\* SQLDialect.generate_ddl
dialect_generate_ddl(dialect, schema, table_name, cols, schema_qualified) ==
    IF schema_qualified
    THEN base_ddl_sq(dialect, schema, table_name,
                     Join(_COLUMN_SEPARATOR, cols))
    ELSE base_ddl(dialect, table_name, Join(_COLUMN_SEPARATOR, cols))

\* the columns generate_ddl makes for the members of a choice
RECURSIVE ddl_choice_columns(_, _, _, _)
ddl_choice_columns(dialect, key, is_primary, choices) ==
    IF choices = <<>> THEN <<>>
    ELSE (IF Head(choices) = T_none THEN <<>>
          ELSE << generate_ddl_column(dialect,
                      key \o << "_" >> \o Head(choices),
                      type_column_mapping(dialect, Head(choices)),
                      is_primary) >>)
         \o ddl_choice_columns(dialect, key, is_primary, Tail(choices))

\* `for key, col in self.schema.items()` of generate_ddl: the list columns
RECURSIVE ddl_columns(_, _)
ddl_columns(dialect, schema) ==
    IF schema = <<>> THEN <<>>
    ELSE LET key == Head(schema).k
             value_type == Head(schema).v.type
             is_primary == Head(schema).v.is_primary
         IN (IF ~Contains(value_type, _CHOICE_SEQUENCE)
             THEN << generate_ddl_column(dialect, key,
                         type_column_mapping(dialect, value_type),
                         is_primary) >>
             ELSE ddl_choice_columns(dialect, key, is_primary,
                      Split(SubSeq(value_type, 3, Len(value_type)),
                            _CHOICE_DELIMITER)))
            \o ddl_columns(dialect, Tail(schema))

K_schema ==
    << "s", "c", "h", "e", "m", "a" >>

K_schema_qualified ==
    << "s", "c", "h", "e", "m", "a", "_", "q", "u", "a", "l", "i", "f",
       "i", "e", "d" >>

DEFAULT_SCHEMA ==
    << "p", "u", "b", "l", "i", "c" >>

\* the keyword parameters of `def generate_ddl(self, table, schema="public")`
generate_ddl_keywords == { K_schema }

\* self.generate_ddl(table, **kwargs): a keyword that is no parameter of the
\* method raises TypeError; the statement is always rendered by
\* self.sql_dialect.generate_ddl(schema, table, columns)
generate_ddl(schema, dialect, table, kwargs) ==
    IF \E n \in 1..Len(kwargs) : kwargs[n].k \notin generate_ddl_keywords
    THEN [raised |-> TRUE, out |-> <<>>]
    ELSE [raised |-> FALSE,
          out |-> dialect_generate_ddl(
                      dialect,
                      IF DictHas(kwargs, K_schema)
                      THEN DictGet(kwargs, K_schema) ELSE DEFAULT_SCHEMA,
                      table,
                      Sorted(ddl_columns(dialect, schema)),
                      TRUE)]

-----------------------------------------------------------------------------
(* The documents the model feeds to relationalize.  A document is built   *)
(* from a spine of nesting hops that ends in a scalar:                     *)
(*   "key"     {"b": <rest>}                                               *)
(*   "keyarr"  {"a": [<rest>, ..., <rest>]}                                *)
(*   "arr"     [<rest>, ..., <rest>]                                       *)
(* every array of one document holding n copies of what follows it.  A     *)
(* document may carry a scalar sibling field "b_a" at the top level,       *)
(* before or after the spine's field.                                      *)

Spines ==
    { << "key" >>,                          \* {"b": 7}
      << "keyarr" >>,                       \* {"a": [7]}
      << "key", "keyarr" >>,                \* {"b": {"a": [7]}}
      << "keyarr", "key" >>,                \* {"a": [{"b": 7}]}
      << "keyarr", "arr" >>,                \* {"a": [[7]]}
      << "keyarr", "keyarr" >>,             \* {"a": [{"a": [7]}]}
      << "keyarr", "key", "keyarr" >>,      \* {"a": [{"b": {"a": [7]}}]}
      << "keyarr", "keyarr", "keyarr" >>,   \* {"a": [{"a": [{"a": [7]}]}]}
      << "keyarr", "arr", "arr" >> }        \* {"a": [[[7]]]}

Copies(n, v) == [i \in 1..n |-> v]

RECURSIVE Build(_, _)
Build(spine, n) ==
    IF spine = <<>> THEN IntVal(7)
    ELSE LET rest == Build(Tail(spine), n) IN
         CASE Head(spine) = "key" ->
                  Obj(<< [k |-> <<"b">>, v |-> rest] >>)
           [] Head(spine) = "keyarr" ->
                  Obj(<< [k |-> <<"a">>, v |-> Arr(Copies(n, rest))] >>)
           [] Head(spine) = "arr" -> Arr(Copies(n, rest))

SiblingKey == <<"b", "_", "a">>

WithSibling(d, sib) ==
    CASE sib = "none"  -> d
      [] sib = "first" -> Obj(<< [k |-> SiblingKey, v |-> IntVal(5)] >> \o d.c)
      [] sib = "last"  -> Obj(d.c \o << [k |-> SiblingKey, v |-> IntVal(5)] >>)

\* top-level documents are objects
Docs ==
    { Build(s, n) : s \in Spines, n \in 0..MaxArrLen }
    \cup { WithSibling(Build(<< "key", "keyarr" >>, n), sib) :
             n \in 0..MaxArrLen, sib \in {"first", "last"} }

\* what a caller can put in the iterable: relationalize does not look at the
\* type of an item, so scalars and arrays are among them
TopLevelSpines ==
    { << >>,                                \* 7
      << "arr" >>,                          \* [7]
      << "arr", "key" >>,                   \* [{"b": 7}]
      << "key" >>,                          \* {"b": 7}
      << "keyarr" >> }                      \* {"a": [7]}

AnyDocs == { Build(s, n) : s \in TopLevelSpines, n \in 0..MaxArrLen }

-----------------------------------------------------------------------------
(* The Schema instances as a state machine.                                *)

\* the Schema objects of a behaviour
Insts == {1, 2}

KeyA == << "a" >>
KeyId == << "_", "i", "d" >>
KeyB == << "b" >>

\* the flat rows handed to read_object and convert_object
Rows ==
    { << [k |-> KeyA, v |-> NoneVal] >>,
      << [k |-> KeyA, v |-> IntVal(1)] >>,
      << [k |-> KeyA, v |-> BigInt(50, 0)] >>,
      << [k |-> KeyA, v |-> FloatVal(25)] >>,
      << [k |-> KeyA, v |-> StrVal("foobar")] >>,
      << [k |-> KeyId, v |-> StrVal("2017-07-09 00:00:00")],
         [k |-> KeyA, v |-> BoolVal(TRUE)] >>,
      << [k |-> KeyA, v |-> FloatVal(10)], [k |-> KeyId, v |-> Arr(<<>>)] >> }

\* the rows handed to convert_object: the rows read, and rows with a field
\* that no row read has
Records ==
    Rows \cup { << [k |-> KeyB, v |-> NoneVal] >>,
                << [k |-> KeyB, v |-> IntVal(1)] >> }

KeyAInt == << "a", "_", "i", "n", "t" >>

\* the rows read where the output columns matter: fields that become
\* choices, and a field named as a column of such a choice
ColumnRows ==
    { << [k |-> KeyA, v |-> NoneVal] >>,
      << [k |-> KeyA, v |-> IntVal(1)] >>,
      << [k |-> KeyA, v |-> BigInt(50, 0)] >>,
      << [k |-> KeyA, v |-> StrVal("foobar")] >>,
      << [k |-> KeyAInt, v |-> IntVal(1)] >>,
      << [k |-> KeyId, v |-> StrVal("2017-07-09 00:00:00")],
         [k |-> KeyA, v |-> FloatVal(25)] >> }

\* the argument lists of Schema.merge: two schemas, or the same one twice
MergeArgs == { << i, j >> : i \in Insts, j \in Insts }

\* distinct rows read so far, over the instances
Reads == SumSeq([n \in 1..Cardinality(Insts) |-> Cardinality(readLog[n])])

\* merged: whether Schema.merge was called, with which instances' schema
\* dicts, what these were before the call, merged_schema (field name ->
\* owner of the ColumnDict) and its value when the call returned
NoMerge == [done |-> FALSE, args |-> <<>>, before |-> <<>>, schema |-> <<>>,
            result |-> <<>>]

NoConvert == [called |-> FALSE, record |-> <<>>, schema |-> <<>>,
              log |-> {}, strategy |-> "", raised |-> FALSE, out |-> <<>>]

NoColumns == [called |-> FALSE, schema |-> <<>>, out |-> <<>>]

NoDdl == [called |-> FALSE, schema |-> <<>>, dialect |-> "", kwargs |-> <<>>,
          raised |-> FALSE, out |-> <<>>]

NoSerialize == [called |-> FALSE, schema |-> <<>>, text |-> <<>>, back |-> <<>>]

\* Schema(): no instance has read anything, nothing merged or converted
SchemaFresh ==
    /\ schemas = [i \in Insts |-> <<>>]
    /\ readLog = [i \in Insts |-> {}]
    /\ merged = NoMerge
    /\ converted = NoConvert
    /\ columns = NoColumns
    /\ serialized = NoSerialize
    /\ ddl = NoDdl

\* schemas[i].read_object(row)
ReadObject(i, row) ==
    /\ row \in readLog[i] \/ Reads < MaxReads
    /\ schemas' = [schemas EXCEPT ![i] = read_object(@, row)]
    /\ readLog' = [readLog EXCEPT ![i] = @ \cup {row}]
    /\ UNCHANGED <<merged, converted, columns, serialized, ddl>>
    /\ UNCHANGED relVars

\* Schema.merge(schemas[args[1]].schema, ..., schemas[args[n]].schema)
Merge(args) ==
    /\ \E hm \in {merge(schemas, args)} :
        /\ schemas' = hm.S
        /\ merged' = [done |-> TRUE,
                      args |-> args,
                      before |-> [n \in 1..Len(args) |-> schemas[args[n]]],
                      schema |-> hm.m,
                      result |-> MergedSchema(hm)]
    /\ UNCHANGED <<readLog, converted, columns, serialized, ddl>>
    /\ UNCHANGED relVars

\* schemas[i].convert_object(record)
ConvertObject(i, record) ==
    /\ \E res \in {convert_object(schemas[i], record)} :
        converted' = [called |-> TRUE,
                      record |-> record,
                      schema |-> schemas[i],
                      log |-> readLog[i],
                      strategy |-> Strategy(schemas[i], record),
                      raised |-> res.raised,
                      out |-> IF res.raised THEN <<>> ELSE res.out]
    /\ UNCHANGED <<schemas, readLog, merged, columns, serialized, ddl>>
    /\ UNCHANGED relVars

\* schemas[i].generate_output_columns()
GenerateOutputColumns(i) ==
    /\ columns' = [called |-> TRUE,
                   schema |-> schemas[i],
                   out |-> generate_output_columns(schemas[i])]
    /\ UNCHANGED <<schemas, readLog, merged, converted, serialized, ddl>>
    /\ UNCHANGED relVars

\* no Relationalize instance takes part in the Schema behaviours
SchemaInit ==
    /\ SchemaFresh
    /\ stringify_arrays = FALSE
    /\ stringify_objects = FALSE
    /\ outputs = <<>>
    /\ log = <<>>
    /\ rids = 0
    /\ events = <<>>
    /\ pc = "new"
    /\ items = <<>>

SchemaNext ==
    \/ \E i \in Insts, row \in Rows : ReadObject(i, row)
    \/ \E args \in MergeArgs : Merge(args)

SpecSchema == SchemaInit /\ [][SchemaNext]_vars

ConvertNext ==
    \/ \E row \in Rows : ReadObject(1, row)
    \/ \E record \in Records : ConvertObject(1, record)

SpecConvert == SchemaInit /\ [][ConvertNext]_vars

ColumnsNext ==
    \/ \E row \in ColumnRows : ReadObject(1, row)
    \/ \E record \in ColumnRows : ConvertObject(1, record)
    \/ GenerateOutputColumns(1)

SpecColumns == SchemaInit /\ [][ColumnsNext]_vars

\* the rows read where the field names matter: names that differ in case
\* only, names with a character that JSON escapes or that is not
\* alphanumeric, a primary key, a field without a type yet
KeyUpperA == << "A" >>

KeyQuoted == << "a", Quote >>

KeyBackslash == << Backslash, "a" >>

KeyAccent == << "U+00E9" >>

SerialRows ==
    { << [k |-> KeyA, v |-> NoneVal],
         [k |-> KeyUpperA, v |-> StrVal("foobar")] >>,
      << [k |-> KeyQuoted, v |-> IntVal(1)],
         [k |-> KeyId, v |-> StrVal("2017-07-09 00:00:00")] >>,
      << [k |-> KeyBackslash, v |-> BoolVal(TRUE)],
         [k |-> KeyAccent, v |-> FloatVal(25)],
         [k |-> KeyA, v |-> StrVal("foobar")] >>,
      << [k |-> KeyA, v |-> IntVal(1)] >> }

\* schemas[i].drop_null_columns()
DropNullColumns(i) ==
    /\ schemas' = [schemas EXCEPT ![i] = drop_null_columns(@)]
    /\ UNCHANGED <<readLog, merged, converted, columns, serialized, ddl>>
    /\ UNCHANGED relVars

\* schemas[i].drop_special_char_columns()
DropSpecialCharColumns(i) ==
    /\ schemas' = [schemas EXCEPT
                     ![i] = drop_special_char_columns(@, ALLOWED_COLUMN_CHARS)]
    /\ UNCHANGED <<readLog, merged, converted, columns, serialized, ddl>>
    /\ UNCHANGED relVars

\* schemas[i].drop_duplicate_columns()
DropDuplicateColumns(i) ==
    /\ schemas' = [schemas EXCEPT ![i] = drop_duplicate_columns(@)]
    /\ UNCHANGED <<readLog, merged, converted, columns, serialized, ddl>>
    /\ UNCHANGED relVars

\* Schema.deserialize(S.serialize()), S being instance i or, for i = 0, the
\* schema the latest Schema.merge returned
Serialize(i) ==
    /\ i = 0 => merged.done
    /\ \E S \in {IF i = 0 THEN merged.result ELSE schemas[i]} :
        \E text \in {serialize(S)} :
            serialized' = [called |-> TRUE, schema |-> S, text |-> text,
                           back |-> deserialize(text)]
    /\ UNCHANGED <<schemas, readLog, merged, converted, columns, ddl>>
    /\ UNCHANGED relVars

\* Instance 1 reads, drops and is serialized; instance 2 reads the row of
\* one field, which rows of instance 1 have with other types, and is merged
\* with it.  serialize changes nothing, so a behaviour ends with it; there
\* is one merge in a behaviour, and an instance reads a row once.
SerialNext ==
    \/ \E row \in SerialRows \ readLog[1] :
          ~serialized.called /\ ReadObject(1, row)
    \/ \E row \in SerialRows \ readLog[2] :
          ~serialized.called /\ Len(row) = 1 /\ ReadObject(2, row)
    \/ ~serialized.called /\ ~merged.done /\ Merge(<< 1, 2 >>)
    \/ ~serialized.called /\ DropNullColumns(1)
    \/ ~serialized.called /\ DropSpecialCharColumns(1)
    \/ ~serialized.called /\ DropDuplicateColumns(1)
    \/ \E i \in {0, 1} : ~serialized.called /\ Serialize(i)

SpecSerialize == SchemaInit /\ [][SerialNext]_vars

\* the table generate_ddl is called for
DdlTable == << "t" >>

\* the keyword arguments generate_ddl is called with
DdlKwargs ==
    { <<>>,
      << [k |-> K_schema, v |-> << "s" >>] >>,
      << [k |-> K_schema_qualified, v |-> TRUE] >>,
      << [k |-> K_schema_qualified, v |-> FALSE] >>,
      << [k |-> K_schema, v |-> << "s" >>],
         [k |-> K_schema_qualified, v |-> FALSE] >> }

\* schemas[i].generate_ddl(DdlTable, **kwargs), self.sql_dialect being dialect
GenerateDdl(i, dialect, kwargs) ==
    /\ \E res \in {generate_ddl(schemas[i], dialect, DdlTable, kwargs)} :
        ddl' = [called |-> TRUE, schema |-> schemas[i], dialect |-> dialect,
                kwargs |-> kwargs, raised |-> res.raised, out |-> res.out]
    /\ UNCHANGED <<schemas, readLog, merged, converted, columns, serialized>>
    /\ UNCHANGED relVars

DdlNext ==
    \/ \E row \in ColumnRows : ReadObject(1, row)
    \/ \E dialect \in Dialects, kwargs \in DdlKwargs :
          GenerateDdl(1, dialect, kwargs)

SpecDdl == SchemaInit /\ [][DdlNext]_vars

-----------------------------------------------------------------------------
(* The Relationalize instance as a state machine.                          *)

\* __init__: the two flags are constructor arguments
RelInit ==
    /\ stringify_arrays \in BOOLEAN
    /\ stringify_objects \in BOOLEAN
    /\ outputs = <<>>
    /\ log = <<>>
    /\ rids = 0
    /\ events = <<>>
    /\ pc = "new"
    /\ items = <<>>
    /\ SchemaFresh

Relationalize(object_list) ==
    /\ Len(items) + Len(object_list) <= MaxItems
    /\ \E st \in {relationalize(SelfState, object_list)} :
        /\ outputs' = st.outputs
        /\ log' = st.log
        /\ rids' = st.rids
        /\ events' = st.events
    /\ items' = items \o object_list
    /\ UNCHANGED <<stringify_arrays, stringify_objects, pc>>
    /\ UNCHANGED schemaVars

\* The iterable holds one document: the loop body is all relationalize does,
\* so a longer iterable behaves as that many consecutive calls.
RelNext == \E item \in Docs : Relationalize(<< item >>)

SpecRelationalize == RelInit /\ [][RelNext]_vars

\* relationalize over an iterable whose item need not be an object
AnyNext == \E item \in AnyDocs : Relationalize(<< item >>)

SpecAnyItem == RelInit /\ [][AnyNext]_vars

(* The instance used as a context manager:                                 *)
(*     with Relationalize(name, create_output, on_object_write) as r:      *)
(*         r.relationalize(...) ...                                        *)
(* create_output returns a writer; a writer's write and close and the      *)
(* callback on_object_write are the caller's code and may raise.           *)

\* the calls of a run that may raise: those to the sink and to the callback
MayRaise(ev) == ev.e \in {"write", "newline", "callback"}

\* The call at position cut raises.  Nothing in relationalize.py catches an
\* exception, so none of the calls after it is made.
RaiseAt(evs, cut) ==
    [n \in 1..cut |-> IF n = cut THEN [evs[n] EXCEPT !.raised = TRUE]
                      ELSE evs[n]]

IsCreate(ev) == ev.e = "create"

IsWrite(ev) == ev.e = "write"

\* self.outputs after the calls evs: its keys, in insertion order
OutputsOf(evs) ==
    LET cs == SelectSeq(evs, IsCreate)
        First(n) == \A m \in 1..(n - 1) : cs[m].table # cs[n].table
        ns == SelectSeq([n \in 1..Len(cs) |-> n], First)
    IN [n \in 1..Len(ns) |-> cs[ns[n]].table]

\* the rows handed to a writer by the calls evs, in order
LogOf(evs) ==
    LET ws == SelectSeq(evs, IsWrite)
    IN [n \in 1..Len(ws) |-> [table |-> ws[n].table, row |-> ws[n].row]]

\* close_io: `for file_object in self.outputs.values(): file_object.close()`;
\* fail = 0, or the fail-th close raises and ends the loop
close_io(evs, fail) ==
    LET outs == OutputsOf(evs)
        last == IF fail = 0 THEN Len(outs) ELSE fail
    IN evs \o [n \in 1..last |->
                 [Event("close", outs[n], WriterOf(evs, outs[n]), <<>>)
                     EXCEPT !.raised = (n = fail)]]

\* __enter__: returns self
Enter ==
    /\ pc = "new"
    /\ pc' = "in"
    /\ UNCHANGED <<stringify_arrays, stringify_objects, outputs, log, rids,
                   items, events>>
    /\ UNCHANGED schemaVars

\* r.relationalize(object_list) inside the block; cut = 0, or the cut-th call
\* the instance has made is one to the sink or the callback that raises,
\* which leaves the block
ScopedRelationalize(object_list) ==
    /\ pc = "in"
    /\ Len(items) + Len(object_list) <= MaxItems
    /\ \E st \in {relationalize(SelfState, object_list)} :
        \E cut \in 0..Len(st.events) :
        /\ IF cut = 0
           THEN /\ events' = st.events
                /\ outputs' = st.outputs
                /\ log' = st.log
                /\ items' = items \o object_list
                /\ pc' = "in"
           ELSE /\ cut > Len(events)
                /\ MayRaise(st.events[cut])
                /\ \E evs \in {RaiseAt(st.events, cut)} :
                      /\ events' = evs
                      /\ outputs' = OutputsOf(evs)
                      /\ log' = LogOf(evs)
                /\ items' = items
                /\ pc' = "raising"
        /\ rids' = st.rids
    /\ UNCHANGED <<stringify_arrays, stringify_objects>>
    /\ UNCHANGED schemaVars

\* __exit__, reached when the block ends or an exception leaves it:
\* self.close_io()
Exit(fail) ==
    /\ pc \in {"in", "raising"}
    /\ events' = close_io(events, fail)
    /\ pc' = "left"
    /\ UNCHANGED <<stringify_arrays, stringify_objects, outputs, log, rids,
                   items>>
    /\ UNCHANGED schemaVars

\* the documents relationalized inside the block: one, two or three tables
ScopedSpines == { << "key" >>, << "keyarr" >>, << "keyarr", "keyarr" >> }

ScopedDocs == { Build(s, n) : s \in ScopedSpines, n \in 0..MaxArrLen }

ScopedNext ==
    \/ Enter
    \/ \E item \in ScopedDocs : ScopedRelationalize(<< item >>)
    \/ \E fail \in 0..Len(outputs) : Exit(fail)

SpecScoped == RelInit /\ [][ScopedNext]_vars

(* The instance used without a block, or after it: close_io is a public    *)
(* method and relationalize can be called again after it.                  *)

MaxCloses == 2

\* the close_io calls so far that closed a writer: each of them closed the
\* writer of the first table
CloseCalls(evs) ==
    Cardinality({ n \in 1..Len(evs) :
                    /\ evs[n].e = "close"
                    /\ evs[n].table = OutputsOf(evs)[1] })

\* r.close_io() with writers whose close returns; self.outputs stays as it
\* is
CloseIo ==
    /\ CloseCalls(events) < MaxCloses
    /\ events' = close_io(events, 0)
    /\ UNCHANGED <<stringify_arrays, stringify_objects, outputs, log, rids,
                   items, pc>>
    /\ UNCHANGED schemaVars

\* relationalize before, inside and after the block, close_io at any time.
\* The calls to a writer are recorded as made; whether a writer given a row
\* after its close raises is the writer's choice and changes no call made
\* before it.
ReuseNext ==
    \/ \E item \in ScopedDocs : Relationalize(<< item >>)
    \/ CloseIo
    \/ Enter
    \/ \E fail \in 0..Len(outputs) : Exit(fail)

SpecReuse == RelInit /\ [][ReuseNext]_vars

-----------------------------------------------------------------------------
(* What the specification says about a document, computed from the         *)
(* document alone.                                                         *)

\* the sum of len(A) over every array A of v, at any depth
RECURSIVE ArraySum(_)
ArraySum(v) ==
    IF v.t = "arr"
    THEN Len(v.c) + SumSeq([i \in 1..Len(v.c) |-> ArraySum(v.c[i])])
    ELSE IF v.t = "obj"
    THEN SumSeq([i \in 1..Len(v.c) |-> ArraySum(v.c[i].v)])
    ELSE 0

\* the number of non-empty arrays of v, at any depth
RECURSIVE NArr(_)
NArr(v) ==
    IF v.t = "arr"
    THEN IF Len(v.c) = 0 THEN 0
         ELSE 1 + SumSeq([i \in 1..Len(v.c) |-> NArr(v.c[i])])
    ELSE IF v.t = "obj"
    THEN SumSeq([i \in 1..Len(v.c) |-> NArr(v.c[i].v)])
    ELSE 0

\* the non-empty arrays that precede the i-th of the values vs
Before(vs, i) == SumSeq([j \in 1..(i - 1) |-> NArr(vs[j])])

FieldValues(fields) == [i \in 1..Len(fields) |-> fields[i].v]

JoinPath(col, key) == IF col = <<>> THEN key ELSE col \o _DELIMITER \o key

RECURSIVE JoinKeys(_)
JoinKeys(keys) ==
    IF keys = <<>> THEN <<>>
    ELSE IF Len(keys) = 1 THEN keys[1]
    ELSE keys[1] \o _DELIMITER \o JoinKeys(Tail(keys))

(* The non-empty arrays of v in the order in which a depth-first traversal *)
(* meets them, the k+1st, k+2nd, ... of the run.  For each: its length,    *)
(* the column `col` it occupies in the row that holds it (object keys      *)
(* joined since the last array boundary), the object keys `keys` from the  *)
(* document root down to it (an array that is itself an array element sits *)
(* under the key _val_ of its element row), and the row that holds it:     *)
(* [rid |-> 0, idx |-> j] is the root row of the j-th document,            *)
(* [rid |-> r, idx |-> i] the row of element i of the r-th array.          *)
RECURSIVE ArraysOf(_, _, _, _, _)
ArraysOf(v, col, keys, parent, k) ==
    IF v.t = "arr" THEN
        IF Len(v.c) = 0 THEN <<>>
        ELSE << [rid |-> k + 1, len |-> Len(v.c), col |-> col, keys |-> keys,
                 parent |-> parent] >>
             \o Concat([i \in 1..Len(v.c) |->
                   LET e == v.c[i]
                       row == [rid |-> k + 1, idx |-> i - 1]
                       k0 == k + 1 + Before(v.c, i)
                   IN IF e.t = "obj" THEN ArraysOf(e, <<>>, keys, row, k0)
                      ELSE IF e.t = "arr"
                      THEN ArraysOf(e, _VAL, Append(keys, _VAL), row, k0)
                      ELSE <<>>])
    ELSE IF v.t = "obj" THEN
        Concat([i \in 1..Len(v.c) |->
            ArraysOf(v.c[i].v, JoinPath(col, v.c[i].k),
                     Append(keys, v.c[i].k), parent,
                     k + Before(FieldValues(v.c), i))])
    ELSE <<>>

\* the non-empty arrays of all documents processed so far
AllArrays ==
    Concat([j \in 1..Len(items) |->
        ArraysOf(items[j], <<>>, <<>>, [rid |-> 0, idx |-> j],
                 Before(items, j))])

\* the column names one row collects from v, v sitting at column col
RECURSIVE Columns(_, _)
Columns(v, col) ==
    IF v.t = "obj"
    THEN Concat([i \in 1..Len(v.c) |->
             Columns(v.c[i].v, JoinPath(col, v.c[i].k))])
    ELSE << col >>

NoDuplicates(s) == \A i, j \in 1..Len(s) : s[i] = s[j] => i = j

\* no two fields of one row of v flatten to the same column name
RECURSIVE NoColumnClash(_)
NoColumnClash(v) ==
    IF v.t = "obj"
    THEN /\ NoDuplicates(Columns(v, <<>>))
         /\ \A i \in 1..Len(v.c) : NoColumnClash(v.c[i].v)
    ELSE IF v.t = "arr"
    THEN \A i \in 1..Len(v.c) : NoColumnClash(v.c[i])
    ELSE TRUE

\* positions in the log of the rows written for the array with RID number r
RowsOf(r) ==
    { w \in 1..Len(log) :
        /\ DictHas(log[w].row, _ID)
        /\ DictGet(log[w].row, _ID) = _generate_rid(r) }

\* positions in the log of the root row of the j-th document
RootRows(j) ==
    { w \in 1..Len(log) :
        /\ log[w].table = name
        /\ Cardinality({u \in 1..w : log[u].table = name}) = j }

\* the positions among ws of the rows whose _index_ is i
WithIndex(ws, i) ==
    { w \in ws :
        /\ DictHas(log[w].row, _INDEX)
        /\ DictGet(log[w].row, _INDEX) = IntVal(i) }

\* positions in the log of the row a parent descriptor names
ParentRows(parent) ==
    IF parent.rid = 0 THEN RootRows(parent.idx)
    ELSE WithIndex(RowsOf(parent.rid), parent.idx)

DefaultFlags == ~stringify_arrays /\ ~stringify_objects

\* the array a is linked to the row that holds it as C2 says
ArrayLinked(a) ==
    /\ \E ws \in {RowsOf(a.rid)} :
          /\ Cardinality(ws) = a.len
          /\ \A i \in 0..(a.len - 1) : Cardinality(WithIndex(ws, i)) = 1
    /\ \E ps \in {ParentRows(a.parent)} :
          /\ ps # {}
          /\ \A w \in ps :
                /\ DictHas(log[w].row, a.col)
                /\ DictGet(log[w].row, a.col) = _generate_rid(a.rid)

\* the arrays of the j-th document
ArraysOfItem(j) ==
    ArraysOf(items[j], <<>>, <<>>, [rid |-> 0, idx |-> j], Before(items, j))

-----------------------------------------------------------------------------
(* C1: with both stringify flags false, relationalizing a top-level object *)
(* d writes 1 + (the sum of len(A) over every array A of d, at any depth)  *)
(* rows in all, over all tables.                                           *)
C1_RowCount ==
    [][ (DefaultFlags /\ items' # items)
          => Len(log') = Len(log) + 1 + ArraySum(items'[Len(items')]) ]_vars

\* a document with an array of arrays ({"a": [[7, 7], [7, 7]]}: 7 rows) has
\* been relationalized after one whose only array is empty
C1_Witness ==
    /\ DefaultFlags
    /\ Len(items) = 2
    /\ items[1] = Build(<< "keyarr" >>, 0)
    /\ items[2] = Build(<< "keyarr", "arr" >>, 2)
    /\ Len(log) = 1 + 7

(* C2 as claimed: with both stringify flags false (the documents hold no   *)
(* reserved keys), every non-empty array A reached at column p of a row    *)
(* has that row's column p hold a RID r, exactly len(A) rows carry         *)
(* _rid_ = r, one for each _index_ 0..len(A)-1, and no other array's rows  *)
(* carry r.                                                                *)
C2_Original ==
    DefaultFlags => \A j \in 1..Len(items) :
        \A a \in Range(ArraysOfItem(j)) : ArrayLinked(a)

(* C2 as amended: the same, for the documents in which no two fields of    *)
(* one row flatten to the same column name.                                *)
C2_Linked ==
    DefaultFlags => \A j \in 1..Len(items) :
        NoColumnClash(items[j]) =>
            \A a \in Range(ArraysOfItem(j)) : ArrayLinked(a)

\* {"a": [{"a": [7, 7]}, {"a": [7, 7]}]} has been relationalized: three
\* arrays, three RIDs, 2 + 4 element rows and the root row
C2_Witness ==
    /\ DefaultFlags
    /\ Len(items) >= 1
    /\ items[1] = Build(<< "keyarr", "keyarr" >>, 2)
    /\ NoColumnClash(items[1])
    /\ Len(ArraysOfItem(1)) = 3
    /\ rids >= 3
    /\ Len(log) >= 7

(* C3 as claimed: the rows of every array go to the table N_<p>, p the     *)
(* '_'-join of the object keys from the document root down to the array,   *)
(* at every nesting depth (checked for the default flags).                 *)
C3_Original ==
    DefaultFlags => \A a \in Range(AllArrays) :
        \A w \in RowsOf(a.rid) :
            log[w].table = name \o _DELIMITER \o JoinKeys(a.keys)

-----------------------------------------------------------------------------
(* What the specification says about types, computed from the type names   *)
(* alone.                                                                  *)

\* the base types a classified value can have
BaseTypes == BaseSupportedColumnType

IsChoice(type) == StartsWith(type, << "c", "-" >>)

\* the members of a choice; a base type is its own only member
Members(type) ==
    IF IsChoice(type)
    THEN Range(Split(SubSeq(type, 3, Len(type)), << "-" >>))
    ELSE {type}

\* the choice over a set of base types, members sorted
ChoiceOver(S) == << "c", "-" >> \o Join(<< "-" >>, SortedSet(S))

\* field name -> type of a schema dict, as a set of pairs
TypesOf(schema) ==
    { << schema[n].k, schema[n].v.type >> : n \in 1..Len(schema) }

\* field name -> ColumnDict of a schema dict, as a set of pairs
MappingOf(schema) ==
    { << schema[n].k, schema[n].v >> : n \in 1..Len(schema) }

\* a row of supported scalar values
SupportedRow(row) ==
    \A n \in 1..Len(row) : _parse_type(row[n].v) \in BaseTypes

\* some field of the schema is a choice that holds both int and float
IntWithFloat(schema) ==
    \E n \in 1..Len(schema) :
        /\ IsChoice(schema[n].v.type)
        /\ {T_int, T_float} \subseteq Members(schema[n].v.type)

(* C4 as claimed: no schema built by read_object calls on a fresh Schema   *)
(* has a field whose choice holds both int and float, and neither has the  *)
(* result of Schema.merge over schemas free of such a field.               *)
C4_Original ==
    /\ ~merged.done => \A i \in Insts : ~IntWithFloat(schemas[i])
    /\ ( /\ merged.done
         /\ \A n \in 1..Len(merged.before) : ~IntWithFloat(merged.before[n]) )
       => ~IntWithFloat(merged.result)

(* C5 as claimed: when read_object meets a value of base type t, not none, *)
(* for a field whose type is a choice, the type stays as it is if and only *)
(* if t is a member of the choice, and otherwise becomes the sorted choice *)
(* over the members and t.                                                 *)
C5_Original ==
    [][ \A i \in Insts, row \in Rows :
          ReadObject(i, row) =>
            \A n \in 1..Len(row) :
              LET key == row[n].k
                  t == _parse_type(row[n].v)
              IN ( /\ DictHas(schemas[i], key)
                   /\ IsChoice(TypeOf(schemas[i], key))
                   /\ t \in BaseTypes \ {T_none} )
                 => /\ (TypeOf(schemas'[i], key) = TypeOf(schemas[i], key))
                         <=> (t \in Members(TypeOf(schemas[i], key)))
                    /\ t \notin Members(TypeOf(schemas[i], key))
                         => TypeOf(schemas'[i], key)
                              = ChoiceOver(Members(TypeOf(schemas[i], key))
                                           \cup {t}) ]_vars

\* the laws of the per-field merge of T with t, R being its result
MergeLaws(T, t, R) ==
    /\ t = T => R = T
    /\ t = T_none => R = T
    /\ T = T_none => R = t
    /\ {T, t} = {T_int, T_float} => R = T_float

(* C6 as claimed: merging a type with itself gives the type, merging with  *)
(* none (either order) gives the other type, merging int with float        *)
(* (either order) gives float; for the merge read_object does with the     *)
(* type of a value, and for the merge Schema.merge does with the types of  *)
(* a field in two schemas.                                                 *)
C6_Original ==
    /\ [][ \A i \in Insts, row \in Rows :
             ReadObject(i, row) =>
               \A n \in 1..Len(row) :
                 ( /\ DictHas(schemas[i], row[n].k)
                   /\ _parse_type(row[n].v) \in BaseTypes )
                 => MergeLaws(TypeOf(schemas[i], row[n].k),
                              _parse_type(row[n].v),
                              TypeOf(schemas'[i], row[n].k)) ]_vars
    /\ [](merged.done =>
            \A key \in {KeyA, KeyId} :
              ( /\ DictHas(merged.before[1], key)
                /\ DictHas(merged.before[2], key) )
              => MergeLaws(TypeOf(merged.before[1], key),
                           TypeOf(merged.before[2], key),
                           TypeOf(merged.result, key)))

\* the orderings of n arguments
Orderings(n) ==
    { p \in [1..n -> 1..n] : \A a, b \in 1..n : p[a] = p[b] => a = b }

(* C7: Schema.merge gives every field the same type whatever the order in  *)
(* which the same schemas are passed: the call that was made and the call  *)
(* for each ordering of its arguments agree on the types.                  *)
C7_OrderIndependent ==
    merged.done =>
        \A p \in Orderings(Len(merged.before)) :
            TypesOf(MergedSchema(merge(merged.before, p)))
                = TypesOf(merged.result)

\* two schemas that disagree on a field were merged into a choice
C7_Witness ==
    /\ merged.done
    /\ merged.args = << 2, 1 >>
    /\ DictHas(merged.before[1], KeyA)
    /\ DictHas(merged.before[2], KeyA)
    /\ TypeOf(merged.before[1], KeyA) = T_str
    /\ TypeOf(merged.before[2], KeyA) = ChoiceOver({T_bigint, T_bool})
    /\ TypeOf(merged.result, KeyA) = ChoiceOver({T_bigint, T_bool, T_str})

(* C8 as claimed: Schema.merge(S(r1), S(r2)), S(r) being the schema of a   *)
(* fresh Schema that read the row r of supported scalars, is the same      *)
(* field mapping as that of a fresh Schema that read r1 and then r2.       *)
C8_Original ==
    ( /\ merged.done
      /\ merged.args[1] # merged.args[2] )
    => \A r1, r2 \in {r \in Rows : SupportedRow(r)} :
         ( /\ merged.before[1] = read_object(<<>>, r1)
           /\ merged.before[2] = read_object(<<>>, r2) )
         => MappingOf(merged.result)
              = MappingOf(read_object(read_object(<<>>, r1), r2))

(* C9 as claimed: when a Schema has read only rows of supported scalars,   *)
(* convert_object of a row it has read does not raise, and every field k   *)
(* of the row that is not null and whose schema type is a choice is in the *)
(* result under k_<t>, t the classified type of its value.                 *)
C9_Original ==
    ( /\ converted.called
      /\ converted.record \in converted.log
      /\ \A r \in converted.log : SupportedRow(r) )
    => /\ ~converted.raised
       /\ \A n \in 1..Len(converted.record) :
            LET k == converted.record[n].k
                v == converted.record[n].v
                kt == k \o << "_" >> \o _parse_type(v)
            IN ( /\ v # NoneVal
                 /\ DictHas(converted.schema, k)
                 /\ IsChoice(TypeOf(converted.schema, k)) )
               => /\ DictHas(converted.out, kt)
                  /\ DictGet(converted.out, kt) = v

(* C10 as claimed: convert_object raises whenever the row has a value, not *)
(* null, for a field whose schema type is a choice, and the classified     *)
(* type of the value is not a member of the choice; under either strategy. *)
C10_Original ==
    ( /\ converted.called
      /\ \E n \in 1..Len(converted.record) :
           /\ converted.record[n].v # NoneVal
           /\ DictHas(converted.schema, converted.record[n].k)
           /\ IsChoice(TypeOf(converted.schema, converted.record[n].k))
           /\ _parse_type(converted.record[n].v)
                \notin Members(TypeOf(converted.schema, converted.record[n].k)) )
    => converted.raised

(* C11 as claimed: whatever the schema and the row, and whichever strategy *)
(* convert_object picks, its result has no field that the schema does not  *)
(* have, a field whose value is null included.                             *)
C11_Original ==
    (converted.called /\ ~converted.raised) =>
        \A k \in KeysOf(converted.record) \ KeysOf(converted.schema) :
            ~DictHas(converted.out, k)

\* a list of str is sorted ascending and holds no name twice
StrictlySorted(xs) == \A n \in 1..(Len(xs) - 1) : StrLess(xs[n], xs[n + 1])

(* C12 as claimed: for every schema built by read_object calls, the list   *)
(* generate_output_columns returns is sorted ascending and has no column   *)
(* name twice.                                                             *)
C12_Original == columns.called => StrictlySorted(columns.out)

(* C13 as claimed: when convert_object succeeds on a schema built by       *)
(* read_object calls, every key of the row it returns is one of the        *)
(* columns generate_output_columns returns for that schema.                *)
C13_Original ==
    ( /\ converted.called
      /\ ~converted.raised
      /\ columns.called
      /\ columns.schema = converted.schema )
    => KeysOf(converted.out) \subseteq Range(columns.out)

(* C14 as claimed: a top-level document that is not an object is rejected, *)
(* no row is written to any table for it.                                  *)
C14_Original ==
    [][ (items' # items /\ items'[Len(items')].t # "obj") => log' = log ]_vars

(* C15 as claimed: with stringify_objects true and stringify_arrays false, *)
(* every row written to a table other than the root table has the columns  *)
(* _rid_ and _index_, and its _rid_ is the value some other row holds in   *)
(* one of its columns (the parent's column of the array).                  *)
C15_Original ==
    (stringify_objects /\ ~stringify_arrays) =>
        \A w \in 1..Len(log) :
            log[w].table # name =>
                /\ DictHas(log[w].row, _ID)
                /\ DictHas(log[w].row, _INDEX)
                /\ \E u \in 1..Len(log) :
                      /\ u # w
                      /\ \E n \in 1..Len(log[u].row) :
                            /\ log[u].row[n].k # _ID
                            /\ log[u].row[n].v = DictGet(log[w].row, _ID)


-----------------------------------------------------------------------------
\* the row is one written for an element of the array with RID r: it carries
\* _rid_ = r, or (stringify_objects) it is the stringified element row
ElementRowOf(row, r) ==
    \/ /\ DictHas(row, _ID)
       /\ DictGet(row, _ID) = r
    \/ \E n \in 1..Len(row) :
          /\ row[n].v.t = "text"
          /\ row[n].v.c.t = "obj"
          /\ DictHas(row[n].v.c.c, _ID)
          /\ DictGet(row[n].v.c.c, _ID) = r

\* the row holds the RID r as the value of one of its own columns
HoldsRid(row, r) ==
    \E n \in 1..Len(row) : row[n].k # _ID /\ row[n].v = r

\* the RIDs the row holds in its own columns
RidsHeld(row) ==
    { row[n].v : n \in { m \in 1..Len(row) :
                            row[m].k # _ID /\ row[m].v.t = "rid" } }

\* every element row of an array precedes, in the write log lg, the row that
\* holds the array's RID; for the pairs of rows one of which was written
\* after the first `old` rows
PostOrder(lg, old) ==
    \A u \in 1..Len(lg) :
        \A r \in RidsHeld(lg[u].row) :
            \A w \in (IF u > old THEN 1 ELSE old + 1)..Len(lg) :
                ElementRowOf(lg[w].row, r) => w < u

(* C16: the write order of one document is post-order (the element rows of *)
(* an array, and those of arrays nested in them, come before the row that  *)
(* holds the array's RID, and the root-table row is the last row of the    *)
(* document), and the rows of a document follow, in every table, all rows  *)
(* of the documents before it.                                             *)
C16_PostOrder ==
    [][ items' # items =>
          /\ Len(log') > Len(log)
          /\ SubSeq(log', 1, Len(log)) = log
          /\ log'[Len(log')].table = name
          /\ \A w \in (Len(log) + 1)..(Len(log') - 1) : log'[w].table # name
          /\ PostOrder(log', Len(log)) ]_vars

\* {"a": [{"a": [7, 7]}, {"a": [7, 7]}]} has been relationalized as the
\* second document: the rows of the inner arrays, then the rows of the outer
\* one, then the root row
C16_Witness ==
    /\ DefaultFlags
    /\ Len(items) = 2
    /\ items[2] = Build(<< "keyarr", "keyarr" >>, 2)
    /\ \E u, w, x \in 1..Len(log) :
          /\ w < u /\ u < x
          /\ x = Len(log)
          /\ log[x].table = name
          /\ \E r, q \in { _generate_rid(n) : n \in 1..rids } :
                /\ HoldsRid(log[x].row, r)
                /\ ElementRowOf(log[u].row, r)
                /\ HoldsRid(log[u].row, q)
                /\ ElementRowOf(log[w].row, q)


-----------------------------------------------------------------------------
(* C17: create_output is invoked at most once per table name, only for a   *)
(* table that receives a row and before its first row is written; every    *)
(* row of the table goes to the writer that call returned; and             *)
(* on_object_write(table, row) is invoked exactly once after each row is   *)
(* written (the row and its newline), before anything else happens.        *)
C17_LazyOutputs ==
    /\ \A m, n \in 1..Len(events) :
          (events[m].e = "create" /\ events[n].e = "create"
             /\ events[m].table = events[n].table) => m = n
    /\ \A n \in 1..Len(events) :
          events[n].e = "create" =>
              /\ n < Len(events)
              /\ events[n + 1].e = "write"
              /\ events[n + 1].table = events[n].table
              /\ events[n + 1].writer = events[n].writer
    /\ \A n \in 1..Len(events) :
          events[n].e \in {"write", "newline"} =>
              \E m \in 1..(n - 1) :
                  /\ events[m].e = "create"
                  /\ events[m].table = events[n].table
                  /\ events[m].writer = events[n].writer
    /\ \A n \in 1..Len(events) :
          events[n].e = "newline" =>
              /\ n > 1
              /\ events[n - 1].e = "write"
              /\ ~events[n - 1].raised
              /\ events[n - 1].table = events[n].table
              /\ events[n - 1].writer = events[n].writer
    /\ \A n \in 1..Len(events) :
          (events[n].e = "newline" /\ ~events[n].raised) =>
              /\ n < Len(events)
              /\ events[n + 1].e = "callback"
    /\ \A n \in 1..Len(events) :
          events[n].e = "callback" =>
              /\ n > 2
              /\ events[n - 1].e = "newline"
              /\ ~events[n - 1].raised
              /\ events[n - 1].table = events[n].table
              /\ events[n - 2].row = events[n].row

\* two documents with the same array field have been relationalized: the
\* array's table and the root table were each created once and each got rows
\* from both documents
C17_Witness ==
    /\ pc = "in"
    /\ Len(items) = 2
    /\ Len(outputs) = 2
    /\ \A t \in Range(outputs) :
          /\ Cardinality({n \in 1..Len(events) :
                 events[n].e = "create" /\ events[n].table = t}) = 1
          /\ Cardinality({n \in 1..Len(events) :
                 events[n].e = "callback" /\ events[n].table = t}) >= 2


-----------------------------------------------------------------------------
(* C18 as claimed: once the `with` block is left, by normal completion, by *)
(* a failure of the sink or the callback, or with a failure of one close,  *)
(* close has been called on every writer create_output returned (a close   *)
(* that raised counts as called).                                          *)
C18_Original ==
    pc = "left" =>
        \A n \in 1..Len(events) :
            events[n].e = "create" =>
                \E m \in (n + 1)..Len(events) :
                    /\ events[m].e = "close"
                    /\ events[m].writer = events[n].writer


-----------------------------------------------------------------------------
(* C19: for every schema reached by read_object, Schema.merge and the      *)
(* drop_* operations, the schema dict of Schema.deserialize(S.serialize()) *)
(* has the field names of S, in the same order, each with the same type    *)
(* and the same is_primary flag.                                           *)
C19_RoundTrip == serialized.called => serialized.back = serialized.schema

\* a schema with a primary key, a choice, and field names holding a quote, a
\* backslash and a character outside ASCII was serialized and read back
C19_Witness ==
    /\ serialized.called
    /\ serialized.back = serialized.schema
    /\ {KeyQuoted, KeyBackslash, KeyAccent, KeyId, KeyA}
         \subseteq KeysOf(serialized.schema)
    /\ DictGet(serialized.schema, KeyId).is_primary
    /\ IsChoice(TypeOf(serialized.schema, KeyA))
    /\ Contains(serialized.text, << Backslash, "u", "0", "0", "e", "9" >>)


-----------------------------------------------------------------------------
\* the members of a choice type, in the order in which its name lists them
MemberList(type) == Split(SubSeq(type, 3, Len(type)), << "-" >>)

\* a choice type is well formed: two members or more, each a base type other
\* than none, in strictly increasing order
WellFormedChoice(type) ==
    /\ Len(MemberList(type)) >= 2
    /\ \A n \in 1..Len(MemberList(type)) :
          MemberList(type)[n] \in BaseTypes \ {T_none}
    /\ StrictlySorted(MemberList(type))

ChoicesWellFormed(schema) ==
    \A n \in 1..Len(schema) :
        IsChoice(schema[n].v.type) => WellFormedChoice(schema[n].v.type)

(* C20: after any sequence of read_object and Schema.merge calls from      *)
(* empty schemas, every field type that is a choice has two members or     *)
(* more, all base types, none not among them, in strictly increasing       *)
(* order; in the instances' schemas and in the schema merge returns.       *)
C20_ChoicesWellFormed ==
    /\ \A i \in Insts : ChoicesWellFormed(schemas[i])
    /\ merged.done => ChoicesWellFormed(merged.result)

\* an instance built a choice of three members by reading, and Schema.merge
\* returned a choice that neither of its arguments had
C20_Witness ==
    /\ \E i \in Insts :
          /\ DictHas(schemas[i], KeyA)
          /\ IsChoice(TypeOf(schemas[i], KeyA))
          /\ Len(MemberList(TypeOf(schemas[i], KeyA))) = 3
    /\ merged.done
    /\ DictHas(merged.result, KeyA)
    /\ IsChoice(TypeOf(merged.result, KeyA))
    /\ \A n \in 1..Len(merged.before) :
          DictHas(merged.before[n], KeyA)
            => TypeOf(merged.before[n], KeyA) # TypeOf(merged.result, KeyA)


-----------------------------------------------------------------------------
\* the value of a keyword argument, or its default
Option(kwargs, key, default) ==
    IF DictHas(kwargs, key) THEN DictGet(kwargs, key) ELSE default

(* C21 as claimed: generate_ddl accepts schema (default "public") and      *)
(* schema_qualified (default true), and renders the dialect's unqualified  *)
(* CREATE TABLE template when schema_qualified is false, the               *)
(* schema-qualified one otherwise.                                         *)
C21_Original ==
    ddl.called =>
        /\ ~ddl.raised
        /\ \E cols \in {Join(_COLUMN_SEPARATOR,
                                Sorted(ddl_columns(ddl.dialect, ddl.schema)))} :
              ddl.out = IF Option(ddl.kwargs, K_schema_qualified, TRUE)
                        THEN base_ddl_sq(ddl.dialect,
                                 Option(ddl.kwargs, K_schema, DEFAULT_SCHEMA),
                                 DdlTable, cols)
                        ELSE base_ddl(ddl.dialect, DdlTable, cols)


-----------------------------------------------------------------------------
(* C22 as claimed: Schema.merge leaves every schema mapping passed to it   *)
(* unchanged; in a step in which merge is called, each argument has after  *)
(* the call the fields, types and is_primary values it had before it, also *)
(* when the types of a field diverge between the arguments.                *)
C22_Original ==
    [][ merged' # merged
          => \A n \in 1..Len(merged'.args) :
                schemas'[merged'.args[n]] = merged'.before[n] ]_vars


-----------------------------------------------------------------------------
\* the rows of R all of whose values are scalars
ScalarRows(R) ==
    { row \in R : \A n \in 1..Len(row) : row[n].v.t \notin {"obj", "arr"} }

\* the sequences that list every row of R once
Arrangements(R) ==
    { p \in [1..Cardinality(R) -> R] :
        \A a, b \in 1..Cardinality(R) : p[a] = p[b] => a = b }

\* the schema dict of a fresh Schema after read_object of each row of rows,
\* in their order
RECURSIVE ReadInOrder(_, _)
ReadInOrder(schema, rows) ==
    IF rows = <<>> THEN schema
    ELSE CHOOSE out \in
           { ReadInOrder(s1, Tail(rows)) :
               s1 \in {read_object(schema, Head(rows))} } : TRUE

(* C23 as claimed: the types read_object infers do not depend on the order *)
(* of the rows; whatever set of rows of scalar values an instance has      *)
(* read, reading that set into a fresh Schema gives every field the same   *)
(* type in every order.                                                    *)
C23_Original ==
    \A i \in Insts :
        \A p, q \in Arrangements(ScalarRows(readLog[i])) :
            TypesOf(ReadInOrder(<<>>, p)) = TypesOf(ReadInOrder(<<>>, q))


-----------------------------------------------------------------------------
\* a row or its newline went to a writer after that writer's close
ClosedWrite(evs) ==
    \E a, b \in 1..Len(evs) :
        /\ a < b
        /\ evs[a].e = "close"
        /\ evs[b].e \in {"write", "newline"}
        /\ evs[b].writer = evs[a].writer

(* C24 as claimed: no row is ever written to a writer that has already     *)
(* been closed, whatever relationalize and close_io calls are made on the  *)
(* instance.                                                               *)
C24_Original == ~ClosedWrite(events)

=============================================================================
